---- MODULE Spec2Model ----
(***************************************************************************)
(* increstore: an incremental content-addressed archive.                   *)
(*                                                                         *)
(* The metadata index (table `blobs` of meta.db) is the sequence `blobs`,  *)
(* in rowid order; the object store (<prefix>/objects/..) is the function  *)
(* `objects` from a hash to the bytes of the file at filepath(hash).       *)
(*                                                                         *)
(* Bytes are abstract: the canonical bytes of version c (Full(c)), the     *)
(* patch that turns version x into version c (Delta(x, c)), or the empty   *)
(* file.  The digest is collision free on them.                            *)
(***************************************************************************)
EXTENDS Integers, Sequences, FiniteSets, TLC

\* ---------------------------------------------------------------- bounds
NumContents == 8      \* distinct versions (contents) that are ever pushed
MaxBlobs == 14        \* rows the index may reach
MaxRepushes == 1      \* push() calls of a file that was pushed before
MaxDehydrates == 1    \* dehydrate() calls of one behaviour
MaxRenames == 1       \* rename() calls of one behaviour
MaxOpsBlobs == 5      \* rows the index may reach when every operation is called
MaxCheckBlobs == 7    \* rows the index may reach when files are overwritten
MaxWalkBlobs == 13    \* rows the index may reach when validate runs step by step
MaxBody == 3           \* bytes given to one HashRW
MaxByte == 1           \* largest value of a byte given to a HashRW
MaxOpenTries == 12    \* Connection::open calls of one db::open that are followed
NumTrials == 3        \* parallel delta trials of the race specification
MaxDelta == 3         \* largest delta, in bytes, of the race specification

\* ------------------------------------------------------ program constants
MAX_ROOTS == 5        \* max_root_blobs()
MAX_AGE == 100        \* max_unused_age of Stats::root_score
GENESIS_ID == 1       \* Blob::is_genesis: sqlite ROWID starts from 1

\* ------------------------------------------- sizes of the modelled inputs
SizeUnit == 100
ContentSize == 10 * SizeUnit  \* canonical bytes of every version
SmallDelta == 1 * SizeUnit    \* patch against a similar version
LargeDelta == 2 * SizeUnit    \* patch against a similar version that changed more
FarDelta == 3 * SizeUnit      \* patch against an unrelated version
TinyDelta == SizeUnit \div 2  \* patch against bytes that differ hardly or not at all

Contents == 1..NumContents
NoParent == 0 - 1     \* parent_hash IS NULL
UnknownName == NumContents + 1      \* a filename no input ever had

NotPicked == 0 - 1     \* push has not come to link_blobs yet
NoBlobs == 0 - 2       \* expect("no blobs"): link_blobs is empty
TrialErr == 0 - 3      \* collect::<Result<..>>()?: a trial returned Err

VARIABLES
    blobs,      \* rows of table blobs, in rowid order
    objects,    \* hash |-> bytes of the object file objects/<hh>/<rest>
    sim,        \* version c |-> the version it was derived from, and by how much
    last,       \* the last push() or get() call: its name, argument and result
    out,        \* bytes at out_filename after the last get(), NoFile if none
    ghost,      \* history: versions whose push returned Ok, hashes dehydrated,
                \* the largest id a row was ever given
    nops,       \* calls made so far, by operation
    race,       \* Arc<AtomicUsize> shared by the trials of one push
    trials,     \* per trial: size of its whole delta, RaceWrite.size, state
    picked,     \* store_size of the delta the push links, once it has
    linked,     \* the trial whose delta the push links, 0 while there is none
    conn,       \* db::open: its wait_count, its attempts and what it returned
    rw,         \* one HashRW: the bytes it is given and its WriteMetadata
    pushers,    \* the push calls that run at the same time, step by step
    walk        \* one validate(): its frames, spawned tasks and temp files

vars ==
    <<blobs, objects, sim, last, out, ghost, nops, race, trials, picked, linked, conn, rw,
      pushers, walk>>
storeVars == <<blobs, objects, sim, last, out, ghost, nops, conn, rw, pushers, walk>>
raceVars == <<race, trials, picked, linked>>

\* ------------------------------------------------------------- sequences
Last(s) == s[Len(s)]

SetMax(S) == CHOOSE x \in S : \A y \in S : y <= x

SetMin(S) == CHOOSE x \in S : \A y \in S : x <= y

\* ------------------------------------------------------------------ bytes
Full(c) == [kind |-> "full", src |-> 0, dst |-> c]

Delta(x, c) == [kind |-> "delta", src |-> x, dst |-> c]

EmptyFile == Full(0)

\* no file at the path
NoFile == [kind |-> "none", src |-> 0, dst |-> 0]

\* WriteMetadata::digest: the keyed 256-bit hash of the bytes written, taken
\* as injective: version c hashes to c, the patch x -> c to 100 + 10 x + c.
Digest(b) == IF b.kind = "full" THEN b.dst ELSE 100 + 10 * b.src + b.dst

\* size of the patch produced by encoding version c against source bytes x
DeltaSize(s, x, c) ==
    IF x = c THEN TinyDelta
    ELSE IF x \in Contents /\ s[c].near = x THEN s[c].level
    ELSE IF x \in Contents /\ s[x].near = c THEN s[x].level
    ELSE FarDelta

\* WriteMetadata::len
ByteLen(s, b) ==
    IF b.kind = "delta" THEN DeltaSize(s, b.src, b.dst)
    ELSE IF b.dst = 0 THEN 0 ELSE ContentSize

\* WriteMetadata::blob
MetaBlob(s, b, filename) ==
    [id |-> 0, filename |-> filename,
     store_size |-> ByteLen(s, b), content_size |-> ByteLen(s, b),
     store_hash |-> Digest(b), content_hash |-> Digest(b),
     parent_hash |-> NoParent]

\* --------------------------------------------------------------- db.rs
is_root(b) == b.parent_hash = NoParent

is_genesis(b) == b.id = GENESIS_ID

by_filename(bs, filename) == SelectSeq(bs, LAMBDA b : b.filename = filename)

by_content_hash(bs, h) == SelectSeq(bs, LAMBDA b : b.content_hash = h)

roots(bs) == SelectSeq(bs, is_root)

\* integer primary key without autoincrement: one more than the largest rowid
NextRowId(bs) == IF Len(bs) = 0 THEN 1 ELSE SetMax({bs[i].id : i \in 1..Len(bs)}) + 1

HasStoreHash(bs, h) == \E i \in 1..Len(bs) : bs[i].store_hash = h

\* insert or ignore, store_hash unique; the row gets a fresh rowid
insert(bs, b) ==
    IF HasStoreHash(bs, b.store_hash) THEN bs
    ELSE Append(bs, [b EXCEPT !.id = NextRowId(bs)])

inserted(bs, b) == ~HasStoreHash(bs, b.store_hash)

\* as remove, but deleting by content_hash: the aliases of the row go with it
remove_content(bs, b) == SelectSeq(bs, LAMBDA r : r.content_hash # b.content_hash)

\* delete from blobs where store_hash = ?
remove(bs, b) == SelectSeq(bs, LAMBDA r : r.store_hash # b.store_hash)

\* update blobs set filename = to where filename = from
rename_rows(bs, from, to) ==
    [i \in 1..Len(bs) |-> IF bs[i].filename = from THEN [bs[i] EXCEPT !.filename = to] ELSE bs[i]]

\* ------------------------------------------------------------- objects
HasObject(objs, h) == h \in DOMAIN objs

\* store_object: persist the temp file at filepath(h), replacing what is there
PutObject(objs, h, b) == [x \in (DOMAIN objs) \cup {h} |-> IF x = h THEN b ELSE objs[x]]

\* a remove_file that leaves the file where it is
RemoveObject_not(objs, h) == objs

\* std::fs::remove_file
RemoveObject(objs, h) == [x \in (DOMAIN objs) \ {h} |-> objs[x]]

\* ------------------------------------------------------------- stats.rs
\* Indices are positions in db::all(), 1-based here and 0-based in the code.

\* aliases(idx).pop(): calculate_depth pushes a delta's index onto the alias
\* list of every row with its content_hash, in index order, so the last entry
\* of a root's list is the delta with that content_hash of the largest index.
AliasIdx(bs, i) ==
    LET A == {j \in 1..Len(bs) : ~is_root(bs[j]) /\ bs[j].content_hash = bs[i].content_hash}
    IN IF A = {} THEN 0 ELSE SetMax(A)

\* children(idx, true): the rows whose parent_hash is this row's content_hash
children(bs, i) ==
    {j \in 1..Len(bs) : j # i /\ ~is_root(bs[j]) /\ bs[j].parent_hash = bs[i].content_hash}

root_age(bs, i) ==
    LET ch == children(bs, i)
        last_idx == IF ch = {} THEN i - 1 ELSE SetMax(ch) - 1
    IN Len(bs) - last_idx

Min2(a, b) == IF a < b THEN a ELSE b

\* root_score of a root that has an alias (u64::max_value() otherwise, and
\* such a root is no candidate)
root_score(bs, i) ==
    LET alias == bs[AliasIdx(bs, i)]
        age == Min2(root_age(bs, i), MAX_AGE)
    IN (alias.store_size * (MAX_AGE - age)) \div MAX_AGE

\* as root_candidates, without the test for an alias: a root that has none
\* is a candidate of score 0
root_candidates_all(bs) ==
    LET idx == SelectSeq([i \in 1..Len(bs) |-> i], LAMBDA i : is_root(bs[i]))
    IN [k \in 1..Len(idx) |->
          [blob |-> bs[idx[k]],
           alias |-> bs[IF AliasIdx(bs, idx[k]) = 0 THEN idx[k] ELSE AliasIdx(bs, idx[k])],
           score |-> IF AliasIdx(bs, idx[k]) = 0 THEN 0 ELSE root_score(bs, idx[k])]]

\* root_candidates: the roots that have an alias, in index order
root_candidates(bs) ==
    LET idx == SelectSeq([i \in 1..Len(bs) |-> i],
                         LAMBDA i : is_root(bs[i]) /\ AliasIdx(bs, i) # 0)
    IN [k \in 1..Len(idx) |->
          [blob |-> bs[idx[k]], alias |-> bs[AliasIdx(bs, idx[k])],
           score |-> root_score(bs, idx[k])]]

\* calculate_depth(idx) of a delta calls itself on every other row that holds
\* the delta's parent content and has no depth yet, and sets the delta's depth
\* on return: it returns iff no delta reaches itself along such rows.  The
\* deltas that lie on or lead to a cycle are what is left when the deltas
\* with no such row among those left are taken away again and again.
Recursing(bs, D) ==
    {j \in D : \E k \in D : k # j /\ bs[k].content_hash = bs[j].parent_hash}

RECURSIVE Unresolved(_, _)
Unresolved(bs, D) ==
    LET D2 == Recursing(bs, D) IN IF D2 = D THEN D ELSE Unresolved(bs, D2)

Cyclic(bs) == Unresolved(bs, {j \in 1..Len(bs) : ~is_root(bs[j])}) # {}

\* ------------------------------------------- stats.rs depth, child_count
\* The definitions below model Stats::from_blobs on an index that is not
\* Cyclic, where calculate_depth returns.

\* rows other than i that hold the parent content of delta i
ParentRows(bs, i) ==
    {k \in 1..Len(bs) : k # i /\ bs[k].content_hash = bs[i].parent_hash}

\* GraphNode.depth: 1 for a root, else 1 + min(blobs.len(), depth of the
\* parent rows)
RECURSIVE depth(_, _)
depth(bs, i) ==
    IF is_root(bs[i]) THEN 1
    ELSE LET P == ParentRows(bs, i) IN
         IF P = {} THEN Len(bs) + 1
         ELSE Min2(Len(bs), SetMin({depth(bs, k) : k \in P})) + 1

\* GraphNode.parent_idx of a delta: the first parent row of the smallest
\* depth below blobs.len(), row 0 of the code (1 here) when there is none
parent_idx(bs, i) ==
    LET P == {k \in ParentRows(bs, i) : depth(bs, k) < Len(bs)} IN
    IF P = {} THEN 1
    ELSE SetMin({k \in P : \A j \in P : depth(bs, k) <= depth(bs, j)})

\* add_child_count(idx): the rows whose child_count it increments, itself,
\* then its parent_idx and on, from a root on through each of its aliases
RECURSIVE CountPath(_, _)
CountPath(bs, i) ==
    {i} \cup
    IF is_root(bs[i])
    THEN UNION {CountPath(bs, a) :
                  a \in {j \in 1..Len(bs) : ~is_root(bs[j]) /\ bs[j].content_hash = bs[i].content_hash}}
    ELSE CountPath(bs, parent_idx(bs, i))

\* child_count(idx) == 1: no add_child_count of another row counts this row
IsLeaf(bs, i) == \A j \in 1..Len(bs) : j # i => i \notin CountPath(bs, j)

\* slice::sort_by_key on a sequence of records with a field `key`: the sort
\* is stable, an element goes after the elements whose key is not larger
\* a sort that is not stable: an element goes before the elements of its key
RECURSIVE InsertByKey_unstable(_, _)
InsertByKey_unstable(s, e) ==
    IF Len(s) = 0 THEN <<e>>
    ELSE IF Last(s).key < e.key THEN Append(s, e)
    ELSE Append(InsertByKey_unstable(SubSeq(s, 1, Len(s) - 1), e), Last(s))

RECURSIVE InsertByKey(_, _)
InsertByKey(s, e) ==
    IF Len(s) = 0 THEN <<e>>
    ELSE IF Last(s).key <= e.key THEN Append(s, e)
    ELSE Append(InsertByKey(SubSeq(s, 1, Len(s) - 1), e), Last(s))

RECURSIVE SortByKey(_)
SortByKey(s) ==
    IF Len(s) = 0 THEN <<>>
    ELSE InsertByKey(SortByKey(SubSeq(s, 1, Len(s) - 1)), Last(s))

\* into_iter().skip(n)
Skip(s, n) == IF Len(s) <= n THEN <<>> ELSE SubSeq(s, n + 1, Len(s))

\* ---------------------------------------------------------- lib.rs cleanup
\* The candidates sorted by score, largest first (key u64::MAX - score, which
\* orders as 0 - score), all but the first max_root_blobs() of them evicted.
Evicted(bs) ==
    LET rc == root_candidates(bs)
        keyed == [k \in 1..Len(rc) |-> [key |-> 0 - rc[k].score, blob |-> rc[k].blob]]
    IN Skip(SortByKey(keyed), MAX_ROOTS)

\* The eviction loop from its k-th victim on: db::remove, then remove_file,
\* whose error ends cleanup with the row already deleted.
RECURSIVE EvictFrom(_, _, _, _)
EvictFrom(ev, k, bs, objs) ==
    IF k > Len(ev) THEN [ret |-> "ok", blobs |-> bs, objects |-> objs]
    ELSE LET root == ev[k].blob
             bs2 == remove(bs, root)
         IN IF ~HasObject(objs, root.content_hash)
            THEN [ret |-> "err", blobs |-> bs2, objects |-> objs]
            ELSE EvictFrom(ev, k + 1, bs2, RemoveObject(objs, root.content_hash))

\* cleanup(conn); Stats::from_blobs overflows the stack on a cyclic index
cleanup(bs, objs) ==
    IF Cyclic(bs) THEN [ret |-> "crash", blobs |-> bs, objects |-> objs]
    ELSE EvictFrom(Evicted(bs), 1, bs, objs)

\* ------------------------------------------------------ delta.rs, xdelta3
\* Encode: the patch that rebuilds version c from the source bytes
Encode(srcBytes, c) == Delta(srcBytes.dst, c)

\* Decode succeeds iff the patch is applied to the source it was made from
CanDecode(srcBytes, patch) ==
    patch.kind = "delta" /\ srcBytes.kind = "full" /\ srcBytes.dst = patch.src

Decode(srcBytes, patch) == Full(patch.dst)

\* ------------------------------------------------------------ lib.rs get
\* The parent walk of get: decode_path collects the blobs left behind, the
\* walk ends at a blob without parent_hash.  It follows one blob at a time,
\* so it runs for ever iff it is not at a root after Len(bs) steps.
RECURSIVE ParentWalk(_, _, _, _)
ParentWalk(bs, blob, decode_path, fuel) ==
    IF is_root(blob) THEN [st |-> "root", blob |-> blob, path |-> decode_path]
    ELSE LET found == by_content_hash(bs, blob.parent_hash) IN
         IF Len(found) = 0 THEN [st |-> "panic", blob |-> blob, path |-> decode_path]
         ELSE IF fuel = 0 THEN [st |-> "hang", blob |-> blob, path |-> decode_path]
         ELSE ParentWalk(bs, Last(found), <<blob>> \o decode_path, fuel - 1)

\* as DecodeFrom, without the assertion on the digest of what was decoded
RECURSIVE DecodeFrom_unchecked(_, _, _, _, _)
DecodeFrom_unchecked(objs, path, k, src, old) ==
    IF k > Len(path) THEN [ret |-> "ok", out |-> old]
    ELSE LET delta_blob == path[k] IN
         IF src = NoFile \/ ~HasObject(objs, delta_blob.store_hash)
         THEN [ret |-> "err", out |-> NoFile]
         ELSE IF ~CanDecode(src, objs[delta_blob.store_hash])
         THEN [ret |-> "err", out |-> NoFile]
         ELSE LET dst == Decode(src, objs[delta_blob.store_hash]) IN
              DecodeFrom_unchecked(objs, path, k + 1, dst, dst)

\* The decode loop of get from the k-th delta of the reversed decode_path on;
\* src is the bytes at src_filepath (NoFile: no such file), old is the bytes
\* of old_tmpfile.
RECURSIVE DecodeFrom(_, _, _, _, _)
DecodeFrom(objs, path, k, src, old) ==
    IF k > Len(path) THEN [ret |-> "ok", out |-> old]
    ELSE LET delta_blob == path[k] IN
         IF src = NoFile \/ ~HasObject(objs, delta_blob.store_hash)
         THEN [ret |-> "err", out |-> NoFile]
         ELSE IF ~CanDecode(src, objs[delta_blob.store_hash])
         THEN [ret |-> "err", out |-> NoFile]
         ELSE LET dst == Decode(src, objs[delta_blob.store_hash]) IN
              IF Digest(dst) # delta_blob.content_hash
              THEN [ret |-> "panic", out |-> NoFile]
              ELSE DecodeFrom(objs, path, k + 1, dst, dst)

\* get(conn, filename, out_filename, false): ret is the call's result, out
\* the bytes persisted at out_filename (NoFile: the path was not touched)
get(bs, objs, filename) ==
    LET found == by_filename(bs, filename) IN
    IF Len(found) = 0 THEN [ret |-> "ok", out |-> NoFile]
    ELSE LET w == ParentWalk(bs, Last(found), <<>>, Len(bs)) IN
         IF w.st # "root" THEN [ret |-> w.st, out |-> NoFile]
         ELSE LET src == IF HasObject(objs, w.blob.content_hash)
                         THEN objs[w.blob.content_hash] ELSE NoFile
              IN DecodeFrom(objs, w.path, 1, src, EmptyFile)

\* The two temp files of get, and the object of the root the walk ended at
TmpFiles == {"tmp1", "tmp2"}

RootObject == "object"

\* the temp files left as they are
swap_none(t) == t

\* std::mem::swap(&mut tmpfile, &mut old_tmpfile)
swap(t) == [tmpfile |-> t.old_tmpfile, old_tmpfile |-> t.tmpfile]

\* The decode loop of get, file by file, from the k-th delta on: t names
\* tmpfile and old_tmpfile, src_filepath is RootObject or a temp file, files
\* holds the bytes of the temp files, steps the decodes made so far.
\* File::create truncates the destination before the source is read.
RECURSIVE DecodeLoop(_, _, _, _, _, _, _, _)
DecodeLoop(objs, path, k, root_hash, t, src_filepath, files, steps) ==
    IF k > Len(path)
    THEN [ret |-> "ok", persisted |-> files[t.old_tmpfile], name |-> t.old_tmpfile, steps |-> steps]
    ELSE LET delta_blob == path[k]
             created == [files EXCEPT ![t.tmpfile] = EmptyFile]
             src == IF src_filepath = RootObject
                    THEN IF HasObject(objs, root_hash) THEN objs[root_hash] ELSE NoFile
                    ELSE created[src_filepath]
         IN IF src = NoFile \/ ~HasObject(objs, delta_blob.store_hash)
            THEN [ret |-> "err", persisted |-> NoFile, name |-> "none", steps |-> steps]
            ELSE IF ~CanDecode(src, objs[delta_blob.store_hash])
            THEN [ret |-> "err", persisted |-> NoFile, name |-> "none", steps |-> steps]
            ELSE LET dst == Decode(src, objs[delta_blob.store_hash])
                     t2 == swap(t)
                     step == [src |-> src_filepath, dst |-> t.tmpfile, delta |-> delta_blob, out |-> dst]
                 IN IF Digest(dst) # delta_blob.content_hash
                    THEN [ret |-> "panic", persisted |-> NoFile, name |-> "none", steps |-> steps]
                    ELSE DecodeLoop(objs, path, k + 1, root_hash, t2, t2.old_tmpfile,
                                    [created EXCEPT ![t.tmpfile] = dst], Append(steps, step))

\* get from the end of the parent walk on, with its temp files
GetFiles(bs, objs, filename) ==
    LET w == ParentWalk(bs, Last(by_filename(bs, filename)), <<>>, Len(bs))
    IN DecodeLoop(objs, w.path, 1, w.blob.content_hash,
                  [tmpfile |-> "tmp2", old_tmpfile |-> "tmp1"], RootObject,
                  [f \in TmpFiles |-> EmptyFile], <<>>)

\* as RaceAdmits, with the comparison turned round
RaceAdmitsBelow(race_size, size) == race_size = 0 \/ race_size < size

\* as RaceAdmits, without the case of the counter not set yet
RaceAdmitsAbove(race_size, size) == race_size > size

\* ------------------------------------------------------------------ rw.rs
\* RaceWrite::poll_write after the inner write: the write is reported Ok
RaceAdmits(race_size, size) == race_size = 0 \/ race_size > size

\* RaceWrite::update_race: the compare-exchange loop leaves max(race, size)
update_race(race_size, size) == IF race_size < size THEN size ELSE race_size

\* ----------------------------------------------------------- lib.rs push
\* append_delta for one root: the source object must open, then the patch is
\* encoded to a temp file
TrialOf(objs, s, root_blob, c) ==
    IF ~HasObject(objs, root_blob.content_hash)
    THEN [st |-> "err", patch |-> EmptyFile, size |-> 0, parent |-> root_blob.content_hash]
    ELSE LET patch == Encode(objs[root_blob.content_hash], c) IN
         [st |-> "run", patch |-> patch, size |-> ByteLen(s, patch),
          parent |-> root_blob.content_hash]

\* root_blobs.into_par_iter().map(append_delta): one trial for every root
RECURSIVE Trials(_, _, _, _)
Trials(objs, s, root_blobs, c) ==
    IF Len(root_blobs) = 0 THEN <<>>
    ELSE Append(Trials(objs, s, SubSeq(root_blobs, 1, Len(root_blobs) - 1), c),
                TrialOf(objs, s, Last(root_blobs), c))

\* One trial run from its first write to its shutdown or drop with no other
\* trial in between, the patch going out in a single write
TrialRun(t, race_size) ==
    IF t.st # "run" THEN [t |-> t, race |-> race_size]
    ELSE [t |-> [t EXCEPT !.st = IF RaceAdmits(race_size, t.size) THEN "done" ELSE "raced"],
          race |-> update_race(race_size, t.size)]

\* The trials run one after the other in the given order
RECURSIVE RunInOrder(_, _, _, _)
RunInOrder(ts, order, k, race_size) ==
    IF k > Len(order) THEN ts
    ELSE LET r == TrialRun(ts[order[k]], race_size) IN
         RunInOrder([ts EXCEPT ![order[k]] = r.t], order, k + 1, r.race)

\* schedule: trial `first` runs first, the others in the order of the roots
FirstThenRest(n, first) ==
    <<first>> \o SelectSeq([i \in 1..n |-> i], LAMBDA i : i # first)

\* link_blobs: the trials that were not raced out, sorted by store_size
link_blobs(ts) ==
    LET done == SelectSeq(ts, LAMBDA t : t.st = "done")
    IN SortByKey([k \in 1..Len(done) |-> [key |-> done[k].size, t |-> done[k]]])

\* the delta row of append_delta
LinkBlob(s, input_blob, t) ==
    [MetaBlob(s, t.patch, input_blob.filename) EXCEPT
        !.content_size = input_blob.content_size,
        !.content_hash = input_blob.content_hash,
        !.parent_hash = t.parent]

\* update_blob of the first of link_blobs: the index cleanup then reads
LinkedIndex(bs1, s, input_blob, sorted) == insert(bs1, LinkBlob(s, input_blob, sorted[1].t))

\* push from link_blobs on: the first is stored and inserted, then cleanup
PushLink(bs1, objs1, s, input_blob, sorted) ==
    IF Len(sorted) = 0
    THEN [ret |-> "panic", step |-> "trials", blobs |-> bs1, objects |-> objs1]
    ELSE LET cl == cleanup(LinkedIndex(bs1, s, input_blob, sorted),
                           PutObject(objs1, Digest(sorted[1].t.patch), sorted[1].t.patch))
         IN [ret |-> cl.ret, step |-> "cleanup", blobs |-> cl.blobs, objects |-> cl.objects]

\* push(conn, input_filepath, ty) of version c: the results it can have, one
\* for every trial that may finish first
push(bs, objs, s, c, filename) ==
    LET root_blobs == roots(bs)
        input_blob == MetaBlob(s, Full(c), filename)
        objs1 == PutObject(objs, input_blob.store_hash, Full(c))
        bs1 == insert(bs, input_blob)
        n == Len(root_blobs)
        ts0 == Trials(objs1, s, root_blobs, c)
        links == {link_blobs(RunInOrder(ts0, FirstThenRest(n, first), 1, 0)) : first \in 1..n}
    IN IF ~inserted(bs, input_blob)
       THEN {[ret |-> "ok", step |-> "exists", blobs |-> bs, objects |-> objs1]}
       ELSE IF n = 0
       THEN {[ret |-> "ok", step |-> "genesis", blobs |-> bs1, objects |-> objs1]}
       ELSE IF \E k \in 1..n : ts0[k].st = "err"
       THEN {[ret |-> "err", step |-> "trials", blobs |-> bs1, objects |-> objs1]}
       ELSE {PushLink(bs1, objs1, s, input_blob, l) : l \in links}

\* the indices a push of version c can hand to cleanup, one for every trial
\* that may finish first; none when push returns before cleanup
PushLinked(bs, objs, s, c, filename) ==
    LET root_blobs == roots(bs)
        input_blob == MetaBlob(s, Full(c), filename)
        objs1 == PutObject(objs, input_blob.store_hash, Full(c))
        bs1 == insert(bs, input_blob)
        n == Len(root_blobs)
        ts0 == Trials(objs1, s, root_blobs, c)
        links == {link_blobs(RunInOrder(ts0, FirstThenRest(n, first), 1, 0)) : first \in 1..n}
    IN IF ~inserted(bs, input_blob) \/ n = 0 \/ \E k \in 1..n : ts0[k].st = "err"
       THEN {}
       ELSE {LinkedIndex(bs1, s, input_blob, l) : l \in {x \in links : Len(x) > 0}}

\* ------------------------------------------------- lib.rs dehydrate, hydrate
RECURSIVE DehydrateFrom(_, _, _)
DehydrateFrom(rc, k, objs) ==
    IF k > Len(rc) THEN objs
    ELSE DehydrateFrom(rc, k + 1, RemoveObject(objs, rc[k].blob.content_hash))

\* as dehydrate, over every root instead of every candidate
dehydrate_roots(bs, objs) ==
    IF Cyclic(bs) THEN [ret |-> "crash", objects |-> objs]
    ELSE [ret |-> "ok",
          objects |-> [h \in DOMAIN objs \ {bs[i].content_hash : i \in {j \in 1..Len(bs) : is_root(bs[j])}}
                         |-> objs[h]]]

\* dehydrate(conn): remove_file of every candidate, errors ignored
dehydrate(bs, objs) ==
    IF Cyclic(bs) THEN [ret |-> "crash", objects |-> objs]
    ELSE [ret |-> "ok", objects |-> DehydrateFrom(root_candidates(bs), 1, objs)]

RECURSIVE HydrateFrom(_, _, _, _)
HydrateFrom(bs, rc, k, objs) ==
    IF k > Len(rc) THEN [ret |-> "ok", objects |-> objs]
    ELSE LET g == get(bs, objs, rc[k].blob.filename) IN
         IF g.ret # "ok" THEN [ret |-> g.ret, objects |-> objs]
         ELSE HydrateFrom(bs, rc, k + 1,
                          IF g.out = NoFile THEN objs
                          ELSE PutObject(objs, rc[k].blob.content_hash, g.out))

\* hydrate(conn): get() of every candidate's filename to its object path
hydrate(bs, objs) ==
    IF Cyclic(bs) THEN [ret |-> "crash", objects |-> objs]
    ELSE HydrateFrom(bs, root_candidates(bs), 1, objs)

\* ------------------------------------------------------------ validate.rs
\* validate_blob_delta0 of row j against source bytes src (NoFile: there is
\* no source): both files are opened, the patch is decoded, digest and
\* length of the result are asserted
validate_blob_delta0(bs, objs, s, j, src) ==
    IF src = NoFile \/ ~HasObject(objs, bs[j].store_hash) THEN [ret |-> "err", dst |-> NoFile]
    ELSE IF ~CanDecode(src, objs[bs[j].store_hash]) THEN [ret |-> "err", dst |-> NoFile]
    ELSE LET dst == Decode(src, objs[bs[j].store_hash]) IN
         IF Digest(dst) # bs[j].content_hash \/ ByteLen(s, dst) # bs[j].content_size
         THEN [ret |-> "panic", dst |-> NoFile]
         ELSE [ret |-> "ok", dst |-> dst]

\* validate_blob_children(parent_idx, src_filepath): every child is decoded
\* against src, and a child that is no leaf is descended into with what it
\* decoded to.  decoded: the rows decoded with both assertions passed;
\* fails: the ways a decode of the walk can fail.
RECURSIVE validate_blob_children(_, _, _, _, _)
validate_blob_children(bs, objs, s, parent, src) ==
    LET one(j) ==
            LET r == validate_blob_delta0(bs, objs, s, j, src) IN
            IF r.ret # "ok" THEN [decoded |-> {}, fails |-> {r.ret}]
            ELSE IF IsLeaf(bs, j) THEN [decoded |-> {j}, fails |-> {}]
            ELSE LET sub == validate_blob_children(bs, objs, s, j, r.dst)
                 IN [decoded |-> {j} \cup sub.decoded, fails |-> sub.fails]
        rs == {one(j) : j \in children(bs, parent)}
    IN [decoded |-> UNION {r.decoded : r \in rs}, fails |-> UNION {r.fails : r \in rs}]

\* validate(): Stats::from_blobs, then the walk from row 0 of the code with
\* the object of that row as source.  rets: the results the call can have
\* (which failing decode ends the walk depends on the order of the tasks).
validate(bs, objs, s) ==
    IF Cyclic(bs) THEN [rets |-> {"crash"}, decoded |-> {}]
    ELSE IF Len(bs) = 0 THEN [rets |-> {"panic"}, decoded |-> {}]
    ELSE LET src == IF HasObject(objs, bs[1].store_hash) THEN objs[bs[1].store_hash] ELSE NoFile
             w == validate_blob_children(bs, objs, s, 1, src)
         IN [rets |-> IF w.fails = {} THEN {"ok"} ELSE w.fails, decoded |-> w.decoded]

\* ------------------------------------------------- lib.rs debug_blobs
\* mark_reached(0, ..): the rows reached from the first row along children
RECURSIVE ReachedFrom(_, _)
ReachedFrom(bs, S) ==
    LET S2 == S \cup UNION {children(bs, i) : i \in S}
    IN IF S2 = S THEN S ELSE ReachedFrom(bs, S2)

mark_reached(bs) == IF Len(bs) = 0 THEN {} ELSE ReachedFrom(bs, {1})

\* ------------------------------------------------------------ the machine
NoObjects == [h \in {} |-> NoFile]

Seen == {c \in Contents : sim[c].seen}

\* the input file of version c is named after it
FileName(c) == c

FileNames(bs) == {bs[i].filename : i \in 1..Len(bs)}

\* How a new version comes about: a small change of the newest root's
\* content, or a large change of the oldest root's; the first from nothing.
Derivations(bs) ==
    LET rs == roots(bs) IN
    IF Len(rs) = 0 THEN {[seen |-> TRUE, near |-> 0, level |-> 0]}
    ELSE {[seen |-> TRUE, near |-> Last(rs).content_hash, level |-> SmallDelta],
          [seen |-> TRUE, near |-> rs[1].content_hash, level |-> LargeDelta]}

Called(op, arg, r, step) == [op |-> op, arg |-> arg, ret |-> r, step |-> step]

\* db::open before its first Connection::open
Opening == [st |-> "run", wait_count |-> 0, tries |-> 0, slept |-> 0, seen |-> "none"]

\* db::open that returned Ok(conn) at its first Connection::open
Opened == [st |-> "ok", wait_count |-> 0, tries |-> 1, slept |-> 0, seen |-> "Ok"]

\* a store directory with nothing pushed
StoreEmpty ==
    /\ blobs = <<>>
    /\ objects = NoObjects
    /\ sim = [c \in Contents |-> [seen |-> FALSE, near |-> 0, level |-> 0]]
    /\ last = Called("open", 0, "ok", "none")
    /\ out = NoFile
    /\ ghost = [pushed |-> {}, dehydrated |-> {}, max_id |-> 0]
    /\ nops = [repush |-> 0, dehydrate |-> 0, rename |-> 0]

\* no HashRW is in use
NoHashRW == [mode |-> "none"]

\* no push is running
NoPushers == [c |-> 0, before |-> [blobs |-> <<>>, objects |-> NoObjects], p |-> <<>>]

\* no validate is running
NoWalk == [st |-> "idle", stack |-> <<>>, tasks |-> NoObjects, files |-> NoObjects, done |-> {}]

StoreInit ==
    StoreEmpty /\ conn = Opened /\ rw = NoHashRW /\ pushers = NoPushers /\ walk = NoWalk

\* no push is running its trials
RaceIdle ==
    /\ race = 0
    /\ trials = <<>>
    /\ picked = NotPicked
    /\ linked = 0

Init == StoreInit /\ RaceIdle

\* push of version c under similarity s2
PushStep(c, s2) ==
    \E r \in push(blobs, objects, s2, c, FileName(c)) :
        /\ blobs' = r.blobs
        /\ objects' = r.objects
        /\ sim' = s2
        /\ last' = Called("push", c, r.ret, r.step)
        /\ out' = NoFile
        /\ ghost' = [pushed |-> IF r.ret = "ok" THEN ghost.pushed \cup {c} ELSE ghost.pushed,
                     dehydrated |-> ghost.dehydrated \ DOMAIN r.objects,
                     max_id |-> SetMax({ghost.max_id}
                                       \cup {r.blobs[i].id : i \in 1..Len(r.blobs)}
                                       \cup (IF r.step = "exists" THEN {} ELSE {NextRowId(blobs)}))]
        /\ UNCHANGED <<raceVars, conn, rw, pushers, walk>>

\* push of a version not seen before, while the index has room for its rows
PushNew(maxBlobs) ==
    \E d \in Derivations(blobs) :
        LET c == Cardinality(Seen) + 1 IN
        /\ c \in Contents
        /\ Len(blobs) + 2 <= maxBlobs
        /\ PushStep(c, [sim EXCEPT ![c] = d])
        /\ UNCHANGED nops

\* push of a file that was pushed before
PushAgain(maxBlobs) ==
    \E c \in Seen :
        /\ nops.repush < MaxRepushes
        /\ Len(blobs) + 2 <= maxBlobs
        /\ PushStep(c, sim)
        /\ nops' = [nops EXCEPT !.repush = @ + 1]

Get ==
    \E filename \in FileNames(blobs) \cup {UnknownName} :
        \E g \in {get(blobs, objects, filename)} :
        /\ Len(blobs) > 0
        /\ out' = g.out
        /\ last' = Called("get", filename, g.ret, "none")
        /\ UNCHANGED <<blobs, objects, sim, ghost, nops, raceVars, conn, rw, pushers, walk>>

Dehydrate ==
    /\ nops.dehydrate < MaxDehydrates
    /\ Len(blobs) > 0
    /\ \E r \in {dehydrate(blobs, objects)} :
        /\ objects' = r.objects
        /\ ghost' = [ghost EXCEPT !.dehydrated = @ \cup (DOMAIN objects \ DOMAIN r.objects)]
    /\ nops' = [nops EXCEPT !.dehydrate = @ + 1]
    /\ UNCHANGED <<blobs, sim, last, out, raceVars, conn, rw, pushers, walk>>

Hydrate ==
    /\ Len(blobs) > 0
    /\ \E r \in {hydrate(blobs, objects)} :
        /\ objects' = r.objects
        /\ ghost' = [ghost EXCEPT !.dehydrated = @ \ DOMAIN r.objects]
    /\ UNCHANGED <<blobs, sim, last, out, nops, raceVars, conn, rw, pushers, walk>>

\* rename(conn, from_filename, to_filename): Ok also when nothing was renamed
Rename ==
    \E from \in FileNames(blobs), to \in FileNames(blobs) \cup {UnknownName} :
        /\ nops.rename < MaxRenames
        /\ from # to
        /\ blobs' = rename_rows(blobs, from, to)
        /\ nops' = [nops EXCEPT !.rename = @ + 1]
        /\ UNCHANGED <<objects, sim, last, out, ghost, raceVars, conn, rw, pushers, walk>>

\* The store under push, dehydrate and hydrate, up to the evictions of cleanup
Next == PushNew(MaxBlobs) \/ PushAgain(MaxBlobs) \/ Dehydrate \/ Hydrate

Spec == Init /\ [][Next]_vars

\* Every operation on a store of few versions
NextOps ==
    \/ PushNew(MaxOpsBlobs) \/ PushAgain(MaxOpsBlobs)
    \/ Dehydrate \/ Hydrate \/ Rename \/ Get

SpecOps == Init /\ [][NextOps]_vars

\* validate(): reads the index and the objects, changes neither
Validate ==
    \E r \in validate(blobs, objects, sim).rets :
        /\ Len(blobs) > 0
        /\ last' = Called("validate", 0, r, "none")
        /\ UNCHANGED <<blobs, objects, sim, out, ghost, nops, raceVars, conn, rw, pushers, walk>>

\* The file of a delta row that still holds what was stored there is
\* overwritten from outside: truncated, or with the bytes of another object
Corrupt ==
    \E i \in 1..Len(blobs) :
        \E b \in {EmptyFile} \cup {objects[g] : g \in DOMAIN objects} :
            /\ ~is_root(blobs[i])
            /\ HasObject(objects, blobs[i].store_hash)
            /\ Digest(objects[blobs[i].store_hash]) = blobs[i].store_hash
            /\ b # objects[blobs[i].store_hash]
            /\ objects' = PutObject(objects, blobs[i].store_hash, b)
            /\ UNCHANGED <<blobs, sim, last, out, ghost, nops, raceVars, conn, rw, pushers, walk>>

\* Pushes and validate, up to the evictions of cleanup
NextValidate == PushNew(MaxBlobs) \/ PushAgain(MaxBlobs) \/ Validate

SpecValidate == Init /\ [][NextValidate]_vars

\* Pushes of few versions, files overwritten from outside, get and validate
NextCheck == PushNew(MaxCheckBlobs) \/ Corrupt \/ Get \/ Validate

SpecCheck == Init /\ [][NextCheck]_vars

\* Pushes alone, of new versions and of versions pushed before
NextPush == PushNew(MaxBlobs) \/ PushAgain(MaxBlobs)

SpecPush == Init /\ [][NextPush]_vars

\* Pushes, dehydrate and get: a store that is dehydrated and not hydrated again
NextDehydrate == PushNew(MaxBlobs) \/ PushAgain(MaxBlobs) \/ Dehydrate \/ Get

SpecDehydrate == Init /\ [][NextDehydrate]_vars

\* ------------------------------------------------- pushes of small changes
\* Versions that differ little from the one before: the patch is smaller
\* than max_unused_age bytes, and scores of different ages round to one value
TinyDerivations(bs) ==
    LET rs == roots(bs) IN
    IF Len(rs) = 0 THEN {[seen |-> TRUE, near |-> 0, level |-> 0]}
    ELSE {[seen |-> TRUE, near |-> Last(rs).content_hash, level |-> TinyDelta],
          [seen |-> TRUE, near |-> rs[1].content_hash, level |-> TinyDelta]}

PushTiny(maxBlobs) ==
    \E d \in TinyDerivations(blobs) :
        LET c == Cardinality(Seen) + 1 IN
        /\ c \in Contents
        /\ Len(blobs) + 2 <= maxBlobs
        /\ PushStep(c, [sim EXCEPT ![c] = d])
        /\ UNCHANGED nops

NextTie == PushTiny(MaxBlobs)

SpecTie == Init /\ [][NextTie]_vars

\* ---------------------------------------------- the trials of one push
\* The trials of a push with 1..NumTrials roots, interleaved write by write.
\* A trial is "run" while its encoder writes, "raced" once a write returned
\* the race error, "out" once the RaceWrite of a raced trial was dropped and
\* "done" once the writer was shut down after the last write.
\* Trial k is the trial of the k-th row of root_blobs; chunk is the length of
\* the buffer of its last poll_write.
TrialStart(k, total) == [root |-> k, total |-> total, size |-> 0, chunk |-> 0, st |-> "run"]

InitRace ==
    /\ StoreInit
    /\ race = 0
    /\ picked = NotPicked
    /\ linked = 0
    /\ \E n \in 1..NumTrials :
          \E total \in [1..n -> 1..MaxDelta] :
              trials = [k \in 1..n |-> TrialStart(k, total[k])]

\* RaceWrite::poll_write of the next n bytes of trial k: the inner write
\* goes through, size grows, then the race is read
TrialWrite(k) ==
    \E n \in 1..(trials[k].total - trials[k].size) :
        /\ trials[k].st = "run"
        /\ trials' = [trials EXCEPT
               ![k].size = @ + n,
               ![k].chunk = n,
               ![k].st = IF RaceAdmits(race, trials[k].size + n) THEN "run" ELSE "raced"]
        /\ UNCHANGED <<race, picked, linked, storeVars>>

\* RaceWrite::poll_shutdown after the last write
TrialShutdown(k) ==
    /\ trials[k].st = "run"
    /\ trials[k].size = trials[k].total
    /\ race' = update_race(race, trials[k].size)
    /\ trials' = [trials EXCEPT ![k].st = "done"]
    /\ UNCHANGED <<picked, linked, storeVars>>

\* Drop for RaceWrite of a trial whose write returned the race error;
\* append_delta then returns Ok(None)
TrialDrop(k) ==
    /\ trials[k].st = "raced"
    /\ race' = update_race(race, trials[k].size)
    /\ trials' = [trials EXCEPT ![k].st = "out"]
    /\ UNCHANGED <<picked, linked, storeVars>>

\* push after the trials are joined: the smallest of link_blobs
PickWinner ==
    /\ picked = NotPicked
    /\ \A k \in DOMAIN trials : trials[k].st \in {"done", "out"}
    /\ picked' = IF \A k \in DOMAIN trials : trials[k].st # "done" THEN NoBlobs
                  ELSE SetMin({trials[k].size : k \in {j \in DOMAIN trials : trials[j].st = "done"}})
    /\ linked' = IF \A k \in DOMAIN trials : trials[k].st # "done" THEN 0
                  ELSE link_blobs(trials)[1].t.root
    /\ UNCHANGED <<race, trials, storeVars>>

NextRace ==
    \/ \E k \in DOMAIN trials : TrialWrite(k)
    \/ \E k \in DOMAIN trials : TrialShutdown(k)
    \/ \E k \in DOMAIN trials : TrialDrop(k)
    \/ PickWinner

SpecRace == InitRace /\ [][NextRace]_vars

\* ------------------------------------- the trials of one push, with failures
\* io::ErrorKind of an error of the inner writer, as append_delta tells them
\* apart: Other is taken for the race, anything else is returned as Err
ErrorKinds == {"Other", "NotOther"}

\* RaceWrite::poll_write when the inner write fails: the error is passed on
\* and size stays; the encoder gives up with that error
TrialFail(k) ==
    \E kind \in ErrorKinds :
        /\ trials[k].st = "run"
        /\ trials' = [trials EXCEPT ![k].st = IF kind = "Other" THEN "raced" ELSE "failed"]
        /\ UNCHANGED <<race, picked, linked, storeVars>>

\* Drop for RaceWrite of a trial that failed; append_delta then returns Err
TrialFailDrop(k) ==
    /\ trials[k].st = "failed"
    /\ race' = update_race(race, trials[k].size)
    /\ trials' = [trials EXCEPT ![k].st = "err"]
    /\ UNCHANGED <<picked, linked, storeVars>>

\* push after the trials are joined, one of them Err: push returns the error
PushFails ==
    /\ picked = NotPicked
    /\ \A k \in DOMAIN trials : trials[k].st \in {"done", "out", "err"}
    /\ \E k \in DOMAIN trials : trials[k].st = "err"
    /\ picked' = TrialErr
    /\ UNCHANGED <<race, trials, linked, storeVars>>

NextRaceFail ==
    \/ NextRace
    \/ \E k \in DOMAIN trials : TrialFail(k)
    \/ \E k \in DOMAIN trials : TrialFailDrop(k)
    \/ PushFails

SpecRaceFail == InitRace /\ [][NextRaceFail]_vars

\* ------------------------------------- RaceWrite, update_race step by step
\* Writers that share one counter, as in test::race: each writes through the
\* blocking impl of Write, is shut down or dropped at any time, and runs
\* update_race one atomic operation per step.  value is the local of
\* update_race, then the state the writer has once update_race returns.
Writer == [size |-> 0, st |-> "run", value |-> 0, then |-> "none", res |-> "none"]

InitCas ==
    /\ StoreInit
    /\ race = 0
    /\ picked = NotPicked
    /\ linked = 0
    /\ \E n \in 1..NumTrials : trials = [k \in 1..n |-> Writer]

\* a compare_exchange that stores whatever the counter holds
compare_exchange_blind(current, expected, new) == [ok |-> TRUE, value |-> new]

\* a compare_exchange whose Err carries the expected value, not the loaded one
compare_exchange_stale(current, expected, new) ==
    IF current = expected THEN [ok |-> TRUE, value |-> new]
    ELSE [ok |-> FALSE, value |-> expected]

\* AtomicUsize::compare_exchange: Ok and the new value stored, or Err(loaded)
compare_exchange(current, expected, new) ==
    IF current = expected THEN [ok |-> TRUE, value |-> new]
    ELSE [ok |-> FALSE, value |-> current]

\* impl Write for RaceWrite, write of n bytes: the race error before anything
\* is written, else the inner write and size += len
WriterWrite(k) ==
    \E n \in 1..MaxDelta :
        /\ trials[k].st = "run"
        /\ IF race > 0 /\ race < trials[k].size + n
           THEN trials' = [trials EXCEPT ![k].res = "race"]
           ELSE /\ trials[k].size + n <= MaxDelta
                /\ trials' = [trials EXCEPT ![k].size = @ + n, ![k].res = "ok"]
        /\ UNCHANGED <<race, picked, linked, storeVars>>

\* poll_shutdown: update_race begins, let mut value = self.race.load()
WriterShutdown(k) ==
    /\ trials[k].st = "run"
    /\ trials' = [trials EXCEPT ![k].st = "loop", ![k].value = race, ![k].then = "shut"]
    /\ UNCHANGED <<race, picked, linked, storeVars>>

\* Drop, of a writer shut down or not: update_race begins
WriterDrop(k) ==
    /\ trials[k].st \in {"run", "shut"}
    /\ trials' = [trials EXCEPT ![k].st = "loop", ![k].value = race, ![k].then = "dropped"]
    /\ UNCHANGED <<race, picked, linked, storeVars>>

\* one turn of while value < self.size: the compare_exchange, and on
\* Err(loaded) the break or value = loaded; update_race returns when the
\* condition of the while is false
WriterLoop(k) ==
    /\ trials[k].st = "loop"
    /\ IF trials[k].value >= trials[k].size
       THEN /\ trials' = [trials EXCEPT ![k].st = trials[k].then]
            /\ race' = race
       ELSE \E x \in {compare_exchange(race, trials[k].value, trials[k].size)} :
            /\ race' = IF x.ok THEN x.value ELSE race
            /\ trials' = IF x.ok THEN trials
                          ELSE IF x.value >= trials[k].size
                          THEN [trials EXCEPT ![k].st = trials[k].then]
                          ELSE [trials EXCEPT ![k].value = x.value]
    /\ UNCHANGED <<picked, linked, storeVars>>

NextCas ==
    \/ \E k \in DOMAIN trials : WriterWrite(k)
    \/ \E k \in DOMAIN trials : WriterShutdown(k)
    \/ \E k \in DOMAIN trials : WriterDrop(k)
    \/ \E k \in DOMAIN trials : WriterLoop(k)

SpecCas == InitCas /\ [][NextCas]_vars

\* a thread that is inside update_race goes on running
SpecCasFair ==
    /\ InitCas
    /\ [][NextCas]_vars
    /\ \A k \in 1..NumTrials : WF_vars(k \in DOMAIN trials /\ WriterLoop(k))

\* ------------------------------------------- two pushes of the same input
\* Two processes call push on the same input file, version c, a version not
\* pushed before.  Each goes through push in steps: db::roots, store_object
\* of the full blob, db::insert of its row, and the rest (the trials,
\* update_blob and cleanup) in one step.  before is the store as it was when
\* the two were started.
PusherStart == [pc |-> "start", root_blobs |-> <<>>, ret |-> "none"]

\* pushes of new versions, one at a time, before the two are started
PushAlone == pushers = NoPushers /\ PushNew(MaxBlobs)

TwoStart ==
    \E d \in Derivations(blobs) :
        LET c == Cardinality(Seen) + 1 IN
        /\ pushers = NoPushers
        /\ c \in Contents
        /\ Len(blobs) + 2 <= MaxBlobs
        /\ sim' = [sim EXCEPT ![c] = d]
        /\ pushers' = [c |-> c, before |-> [blobs |-> blobs, objects |-> objects],
                       p |-> <<PusherStart, PusherStart>>]
        /\ UNCHANGED <<blobs, objects, last, out, ghost, nops, raceVars, conn, rw, walk>>

\* let root_blobs = db::roots(conn)?
PusherRoots(k) ==
    /\ pushers.p[k].pc = "start"
    /\ pushers' = [pushers EXCEPT !.p[k].pc = "roots", !.p[k].root_blobs = roots(blobs)]
    /\ UNCHANGED <<blobs, objects, sim, last, out, ghost, nops, raceVars, conn, rw, walk>>

\* append_full, store_blob: the input is stored at filepath(store_hash)
PusherStore(k) ==
    /\ pushers.p[k].pc = "roots"
    /\ objects' = PutObject(objects, Digest(Full(pushers.c)), Full(pushers.c))
    /\ pushers' = [pushers EXCEPT !.p[k].pc = "stored"]
    /\ UNCHANGED <<blobs, sim, last, out, ghost, nops, raceVars, conn, rw, walk>>

\* append_full, db::insert: None when the row was ignored, and push returns;
\* with no root_blobs push returns after the insert
PusherInsert(k) ==
    LET input_blob == MetaBlob(sim, Full(pushers.c), FileName(pushers.c)) IN
    /\ pushers.p[k].pc = "stored"
    /\ blobs' = insert(blobs, input_blob)
    /\ pushers' =
          IF ~inserted(blobs, input_blob)
          THEN [pushers EXCEPT !.p[k].pc = "done", !.p[k].ret = "exists"]
          ELSE IF Len(pushers.p[k].root_blobs) = 0
          THEN [pushers EXCEPT !.p[k].pc = "done", !.p[k].ret = "genesis"]
          ELSE [pushers EXCEPT !.p[k].pc = "trials"]
    /\ UNCHANGED <<objects, sim, last, out, ghost, nops, raceVars, conn, rw, walk>>

\* push from the trials on, against the root_blobs read at its start: every
\* trial opens the object of its root and the object of the input
PushRest(bs1, objs1, s, c, root_blobs) ==
    LET input_blob == MetaBlob(s, Full(c), FileName(c))
        n == Len(root_blobs)
        ts0 == Trials(objs1, s, root_blobs, c)
        links == {link_blobs(RunInOrder(ts0, FirstThenRest(n, first), 1, 0)) : first \in 1..n}
    IN IF ~HasObject(objs1, input_blob.content_hash) \/ \E k \in 1..n : ts0[k].st = "err"
       THEN {[ret |-> "err", step |-> "trials", blobs |-> bs1, objects |-> objs1]}
       ELSE {PushLink(bs1, objs1, s, input_blob, l) : l \in links}

PusherRest(k) ==
    /\ pushers.p[k].pc = "trials"
    /\ \E r \in PushRest(blobs, objects, sim, pushers.c, pushers.p[k].root_blobs) :
          /\ blobs' = r.blobs
          /\ objects' = r.objects
          /\ pushers' = [pushers EXCEPT !.p[k].pc = "done", !.p[k].ret = r.ret]
    /\ UNCHANGED <<sim, last, out, ghost, nops, raceVars, conn, rw, walk>>

NextTwo ==
    \/ PushAlone
    \/ TwoStart
    \/ \E k \in DOMAIN pushers.p : PusherRoots(k)
    \/ \E k \in DOMAIN pushers.p : PusherStore(k)
    \/ \E k \in DOMAIN pushers.p : PusherInsert(k)
    \/ \E k \in DOMAIN pushers.p : PusherRest(k)

SpecTwo == Init /\ [][NextTwo]_vars

\* ------------------------------------------------------------ rw.rs HashRW
\* A u64 is four limbs of 16 bits, the most significant first.
LimbBase == 65536

Bytes == 0..MaxByte

Bodies == UNION {[1..n -> Bytes] : n \in 0..MaxBody}

\* highway::Key([1, 2, 3, 4])
Key == <<1, 2, 3, 4>>

\* SseHash::new(key): four lanes.  The hash stands for HighwayHash: the lanes
\* are a function of the key and of the bytes appended, in their order.
HashNew == [i \in 1..4 |-> [j \in 1..4 |-> IF j = 4 THEN Key[i] ELSE 0]]

Absorb(h, b) ==
    [i \in 1..4 |-> [j \in 1..4 |-> (h[i][j] * 31 + (b + 1) * (i + 4 * j)) % LimbBase]]

\* SseHash::append(&buf)
RECURSIVE append(_, _)
append(h, buf) ==
    IF Len(buf) = 0 THEN h
    ELSE Absorb(append(h, SubSeq(buf, 1, Len(buf) - 1)), Last(buf))

HexDigits == <<"0", "1", "2", "3", "4", "5", "6", "7", "8", "9", "a", "b", "c", "d", "e", "f">>

\* the four hex digits of one limb, leading zeros kept
Hex4(v) ==
    <<HexDigits[((v \div 4096) % 16) + 1], HexDigits[((v \div 256) % 16) + 1],
      HexDigits[((v \div 16) % 16) + 1], HexDigits[(v % 16) + 1]>>

\* write!(&mut s, "{:016x}", val)
Hex016(val) == Hex4(val[1]) \o Hex4(val[2]) \o Hex4(val[3]) \o Hex4(val[4])

\* digest_hex(bytes: [u64; 4])
digest_hex(bytes) == Hex016(bytes[1]) \o Hex016(bytes[2]) \o Hex016(bytes[3]) \o Hex016(bytes[4])

\* WriteMetadata::new at time t
WriteMetadataNew(t) == [size |-> 0, time_created |-> t, hash0 |-> HashNew]

\* WriteMetadata::digest
digest(meta) == digest_hex(meta.hash0)

\* One HashRW over a body of bytes: written to it with write or poll_write,
\* or read through it with read or poll_read, some bytes per call.  filled
\* is the filled part of the ReadBuf handed to poll_read.
HashModes == {"write", "poll_write", "read", "poll_read"}

InitHash ==
    /\ StoreEmpty
    /\ RaceIdle
    /\ conn = Opened
    /\ pushers = NoPushers
    /\ walk = NoWalk
    /\ \E m \in HashModes, b \in Bodies, t \in 0..1 :
          rw = [mode |-> m, body |-> b, pos |-> 0, meta |-> WriteMetadataNew(t),
                filled |-> <<>>, eof |-> FALSE]

\* the next n bytes of the body
NextBytes(n) == SubSeq(rw.body, rw.pos + 1, rw.pos + n)

\* the inner writer or reader took n bytes: size += n, hash0.append(&buf[..n])
Hashed(n) ==
    [rw EXCEPT !.pos = @ + n,
               !.meta.size = @ + n,
               !.meta.hash0 = append(@, NextBytes(n))]

\* impl Write for HashRW: write
HashWrite ==
    \E n \in 1..(Len(rw.body) - rw.pos) :
        /\ rw.mode = "write"
        /\ rw' = Hashed(n)
        /\ UNCHANGED <<blobs, objects, sim, last, out, ghost, nops, raceVars, conn, pushers, walk>>

\* impl AsyncWrite for HashRW: poll_write
HashPollWrite ==
    \E n \in 1..(Len(rw.body) - rw.pos) :
        /\ rw.mode = "poll_write"
        /\ rw' = Hashed(n)
        /\ UNCHANGED <<blobs, objects, sim, last, out, ghost, nops, raceVars, conn, pushers, walk>>

\* impl Read for HashRW: read; Ok(0) at the end of the body
HashRead ==
    \E n \in 0..(Len(rw.body) - rw.pos) :
        /\ rw.mode = "read"
        /\ ~rw.eof
        /\ n = 0 => rw.pos = Len(rw.body)
        /\ rw' = [Hashed(n) EXCEPT !.eof = (n = 0)]
        /\ UNCHANGED <<blobs, objects, sim, last, out, ghost, nops, raceVars, conn, pushers, walk>>

\* impl AsyncRead for HashRW: poll_read on a ReadBuf that is new or the one
\* of the call before; the inner reader fills n more bytes, then
\* hash0.append(buf.filled()), and size is left alone
HashPollRead ==
    \E n \in 0..(Len(rw.body) - rw.pos), keep \in BOOLEAN :
        /\ rw.mode = "poll_read"
        /\ ~rw.eof
        /\ n = 0 => rw.pos = Len(rw.body)
        /\ LET filled == (IF keep THEN rw.filled ELSE <<>>) \o NextBytes(n)
           IN rw' = [rw EXCEPT !.pos = @ + n,
                               !.filled = filled,
                               !.meta.hash0 = append(@, filled),
                               !.eof = (n = 0)]
        /\ UNCHANGED <<blobs, objects, sim, last, out, ghost, nops, raceVars, conn, pushers, walk>>

NextHash == HashWrite \/ HashPollWrite \/ HashRead \/ HashPollRead

SpecHash == InitHash /\ [][NextHash]_vars

\* ------------------------------------------------------------- db::open
\* One pass of the loop of open per step; the result of Connection::open is
\* an input: Ok, a SqliteFailure whose code is DatabaseLocked, a
\* SqliteFailure with another code, or another rusqlite::Error.
InitOpen ==
    /\ StoreEmpty
    /\ RaceIdle
    /\ conn = Opening
    /\ rw = NoHashRW
    /\ pushers = NoPushers
    /\ walk = NoWalk

Attempt(res) == [conn EXCEPT !.tries = @ + 1, !.seen = res]

\* Ok(conn) => return Ok(conn)
OpenOk ==
    /\ conn.st = "run"
    /\ conn.tries < MaxOpenTries
    /\ conn' = [Attempt("Ok") EXCEPT !.st = "ok"]
    /\ UNCHANGED <<blobs, objects, sim, last, out, ghost, nops, raceVars, rw, pushers, walk>>

\* SqliteFailure, code DatabaseLocked: Err once wait_count > 5, else
\* wait_count += 1, sleep 1000 ms and loop
OpenLocked ==
    /\ conn.st = "run"
    /\ conn.tries < MaxOpenTries
    /\ conn' = IF conn.wait_count > 5
                THEN [Attempt("DatabaseLocked") EXCEPT !.st = "err"]
                ELSE [Attempt("DatabaseLocked") EXCEPT !.wait_count = @ + 1, !.slept = @ + 1000]
    /\ UNCHANGED <<blobs, objects, sim, last, out, ghost, nops, raceVars, rw, pushers, walk>>

\* SqliteFailure with another code: the if has no else, the match arm ends
\* and the loop goes round again, with no sleep and no count
OpenFailure ==
    /\ conn.st = "run"
    /\ conn.tries < MaxOpenTries
    /\ conn' = Attempt("SqliteFailure")
    /\ UNCHANGED <<blobs, objects, sim, last, out, ghost, nops, raceVars, rw, pushers, walk>>

\* any other rusqlite::Error => return Err(e)
OpenError ==
    /\ conn.st = "run"
    /\ conn.tries < MaxOpenTries
    /\ conn' = [Attempt("Error") EXCEPT !.st = "err"]
    /\ UNCHANGED <<blobs, objects, sim, last, out, ghost, nops, raceVars, rw, pushers, walk>>

NextOpen == OpenOk \/ OpenLocked \/ OpenFailure \/ OpenError

SpecOpen == InitOpen /\ [][NextOpen]_vars

\* the object file of row i holds the bytes that were stored under its hash
Intact(bs, objs, i) ==
    HasObject(objs, bs[i].store_hash) /\ Digest(objs[bs[i].store_hash]) = bs[i].store_hash

\* ------------------------------------ validate.rs, the walk step by step
\* add_child_count(j): how often it increments the child_count of row i, and
\* the same summed over the rows of A
RECURSIVE Visits(_, _, _)
RECURSIVE VisitsOf(_, _, _)
VisitsOf(bs, A, i) ==
    IF A = {} THEN 0
    ELSE LET a == CHOOSE x \in A : TRUE IN Visits(bs, a, i) + VisitsOf(bs, A \ {a}, i)

Visits(bs, j, i) ==
    (IF j = i THEN 1 ELSE 0) +
    IF is_root(bs[j])
    THEN VisitsOf(bs, {a \in 1..Len(bs) : ~is_root(bs[a]) /\ bs[a].content_hash = bs[j].content_hash}, i)
    ELSE Visits(bs, parent_idx(bs, j), i)

\* Stats::child_count after from_blobs
child_count(bs, i) == VisitsOf(bs, 1..Len(bs), i)

\* validate_blob_children(parent_idx, src_filepath) at its start: the
\* children sorted by child_count, the last popped.  src names the source
\* file: 0 the object of the first row, k the temp file decoded from row k.
Frame(bs, n, src) ==
    LET ch == SelectSeq([i \in 1..Len(bs) |-> i], LAMBDA i : i \in children(bs, n))
        sorted == SortByKey([k \in 1..Len(ch) |-> [key |-> child_count(bs, ch[k]), idx |-> ch[k]]])
    IN [node |-> n, src |-> src,
        rest |-> [k \in 1..(Len(sorted) - 1) |-> sorted[k].idx],
        last |-> IF Len(sorted) = 0 THEN 0 ELSE Last(sorted).idx,
        handles |-> <<>>]

\* the source file is there to be opened
SrcLive(src) ==
    IF src = 0 THEN HasObject(objects, blobs[1].store_hash) ELSE src \in DOMAIN walk.files

SrcBytes(src) ==
    IF ~SrcLive(src) THEN NoFile
    ELSE IF src = 0 THEN objects[blobs[1].store_hash] ELSE walk.files[src]

Top == walk.stack[Len(walk.stack)]

SetTop(f) == [walk.stack EXCEPT ![Len(walk.stack)] = f]

\* the ? operator on an Err: every frame returns, and the NamedTempFile each
\* holds as src_filepath is dropped; spawned tasks are left running
EarlyReturn(ret) == [walk EXCEPT !.st = ret, !.stack = <<>>, !.files = NoObjects]

\* versions that are a small change of any version still held as a root
AnyDerivations(bs) ==
    LET rs == roots(bs) IN
    IF Len(rs) = 0 THEN {[seen |-> TRUE, near |-> 0, level |-> 0]}
    ELSE {[seen |-> TRUE, near |-> rs[k].content_hash, level |-> SmallDelta] : k \in 1..Len(rs)}

PushAny(maxBlobs) ==
    \E d \in AnyDerivations(blobs) :
        LET c == Cardinality(Seen) + 1 IN
        /\ walk.st = "idle"
        /\ c \in Contents
        /\ Len(blobs) + 2 <= maxBlobs
        /\ PushStep(c, [sim EXCEPT ![c] = d])
        /\ UNCHANGED nops

\* one delta file is truncated from outside before validate is called
Truncate ==
    \E i \in 1..Len(blobs) :
        /\ walk.st = "idle"
        /\ ~is_root(blobs[i])
        /\ \A j \in 1..Len(blobs) : ~is_root(blobs[j]) => Intact(blobs, objects, j)
        /\ objects' = PutObject(objects, blobs[i].store_hash, EmptyFile)
        /\ UNCHANGED <<blobs, sim, last, out, ghost, nops, raceVars, conn, rw, pushers, walk>>

\* validate(): Stats::from_blobs, then validate_blob_root(0, stats)
WalkStart ==
    /\ walk.st = "idle"
    /\ Len(blobs) > 0
    /\ walk' = IF Cyclic(blobs) THEN [walk EXCEPT !.st = "crash"]
               ELSE [walk EXCEPT !.st = "run", !.stack = <<Frame(blobs, 1, 0)>>]
    /\ UNCHANGED <<blobs, objects, sim, last, out, ghost, nops, raceVars, conn, rw, pushers>>

\* one turn of for child_idx in children: a leaf is spawned with a clone of
\* the path, another child is decoded to a temp file and descended into
WalkLoop ==
    /\ walk.st = "run"
    /\ Len(Top.rest) > 0
    /\ LET f == Top
           c == Head(f.rest)
           f2 == [f EXCEPT !.rest = Tail(@)]
       IN IF child_count(blobs, c) = 1
          THEN walk' = [walk EXCEPT
                   !.stack = SetTop([f2 EXCEPT !.handles = Append(@, c)]),
                   !.tasks = PutObject(@, c, [st |-> "spawned", src |-> f.src, bytes |-> NoFile])]
          ELSE \E r \in {validate_blob_delta0(blobs, objects, sim, c, SrcBytes(f.src))} :
                  walk' = IF r.ret # "ok" THEN EarlyReturn(r.ret)
                          ELSE [walk EXCEPT !.stack = Append(SetTop(f2), Frame(blobs, c, c)),
                                            !.files = PutObject(@, c, r.dst),
                                            !.done = @ \cup {c}]
    /\ UNCHANGED <<blobs, objects, sim, last, out, ghost, nops, raceVars, conn, rw, pushers>>

\* for handle in handles: handle.await? of the first handle left
WalkAwait ==
    /\ walk.st = "run"
    /\ Len(Top.rest) = 0
    /\ Len(Top.handles) > 0
    /\ walk.tasks[Head(Top.handles)].st \notin {"spawned", "reading"}
    /\ walk' = IF walk.tasks[Head(Top.handles)].st = "ok"
               THEN [walk EXCEPT !.stack = SetTop([Top EXCEPT !.handles = Tail(@)])]
               ELSE EarlyReturn(IF walk.tasks[Head(Top.handles)].st = "panic" THEN "panic" ELSE "err")
    /\ UNCHANGED <<blobs, objects, sim, last, out, ghost, nops, raceVars, conn, rw, pushers>>

\* the last child: src_filepath is moved into its decode and dropped when the
\* decode ends; a last child that is no leaf is descended into in place of
\* this frame; with no child the frame returns
WalkLast ==
    /\ walk.st = "run"
    /\ Len(Top.rest) = 0
    /\ Len(Top.handles) = 0
    /\ LET f == Top
           dropped == IF f.src = 0 THEN walk.files ELSE RemoveObject(walk.files, f.src)
           returned == [walk EXCEPT !.st = IF Len(walk.stack) = 1 THEN "ok" ELSE "run",
                                    !.stack = SubSeq(walk.stack, 1, Len(walk.stack) - 1),
                                    !.files = dropped]
       IN IF f.last = 0 THEN walk' = returned
          ELSE \E r \in {validate_blob_delta0(blobs, objects, sim, f.last, SrcBytes(f.src))} :
                  walk' = IF r.ret # "ok" THEN EarlyReturn(r.ret)
                          ELSE IF child_count(blobs, f.last) = 1
                          THEN [returned EXCEPT !.done = @ \cup {f.last}]
                          ELSE [walk EXCEPT !.stack = SetTop(Frame(blobs, f.last, f.last)),
                                            !.files = PutObject(dropped, f.last, r.dst),
                                            !.done = @ \cup {f.last}]
    /\ UNCHANGED <<blobs, objects, sim, last, out, ghost, nops, raceVars, conn, rw, pushers>>

\* a spawned validate_blob_delta_null comes to run: MmapBuf::from_path of the
\* delta, then of the source; "lost" when the source is a temp file that was
\* dropped
TaskOpen(c) ==
    /\ walk.tasks[c].st = "spawned"
    /\ LET t == walk.tasks[c] IN
       walk' = [walk EXCEPT !.tasks[c] =
                   IF ~HasObject(objects, blobs[c].store_hash) THEN [t EXCEPT !.st = "err"]
                   ELSE IF t.src # 0 /\ ~SrcLive(t.src) THEN [t EXCEPT !.st = "lost"]
                   ELSE IF ~SrcLive(t.src) THEN [t EXCEPT !.st = "err"]
                   ELSE [t EXCEPT !.st = "reading", !.bytes = SrcBytes(t.src)]]
    /\ UNCHANGED <<blobs, objects, sim, last, out, ghost, nops, raceVars, conn, rw, pushers>>

\* the spawned decode reads through its maps to the end
TaskFinish(c) ==
    /\ walk.tasks[c].st = "reading"
    /\ \E r \in {validate_blob_delta0(blobs, objects, sim, c, walk.tasks[c].bytes)} :
          walk' = [walk EXCEPT !.tasks[c].st = r.ret,
                               !.done = IF r.ret = "ok" THEN @ \cup {c} ELSE @]
    /\ UNCHANGED <<blobs, objects, sim, last, out, ghost, nops, raceVars, conn, rw, pushers>>

NextWalk ==
    \/ PushAny(MaxWalkBlobs)
    \/ Truncate
    \/ WalkStart
    \/ WalkLoop
    \/ WalkAwait
    \/ WalkLast
    \/ \E c \in DOMAIN walk.tasks : TaskOpen(c)
    \/ \E c \in DOMAIN walk.tasks : TaskFinish(c)

SpecWalk == Init /\ [][NextWalk]_vars

\* ----------------------------------------------------------------- claims
\* the last call was a push that came back Ok from cleanup
PushedThrough == last.op = "push" /\ last.step = "cleanup" /\ last.ret = "ok"

\* some root was evicted: a delta is all that is left of its version
SomeEvicted ==
    \E i \in 1..Len(blobs) :
        /\ ~is_root(blobs[i])
        /\ \A j \in 1..Len(blobs) : is_root(blobs[j]) => blobs[j].content_hash # blobs[i].content_hash

\* C1 (round trip): with no rename and no dehydrate called, get of the
\* filename of a version whose push returned Ok returns Ok and writes bytes
\* whose digest is the content hash of that version; the genesis included.
C1_RoundTrip ==
    \A c \in ghost.pushed :
        (last.op = "get" /\ last.arg = FileName(c) /\ nops.rename = 0 /\ nops.dehydrate = 0)
        => (last.ret = "ok" /\ out # NoFile /\ Digest(out) = Digest(Full(c)))

\* C2 (idempotence of push): with no dehydrate called, a push of a version
\* whose earlier push returned Ok returns Ok and leaves every row of the
\* index and every object file as they were.
C2_PushIdempotent ==
    [][(nops'.repush # nops.repush /\ last'.arg \in ghost.pushed /\ nops.dehydrate = 0)
        => (last'.ret = "ok" /\ blobs' = blobs /\ objects' = objects)]_vars

\* C3 (present content): with no dehydrate called, a push of a version whose
\* content hash some row of the index (root or delta) already has adds no
\* row and no object file and runs no trial.
C3_PresentIsNoOp ==
    [][(/\ nops'.repush # nops.repush
        /\ nops.dehydrate = 0
        /\ \E i \in 1..Len(blobs) : blobs[i].content_hash = Digest(Full(last'.arg)))
        => (last'.step = "exists" /\ blobs' = blobs /\ DOMAIN objects' = DOMAIN objects)]_vars

\* C4 (I2, no dangling parent): in every state the parent_hash of every
\* delta row is the content_hash of some row of the index.
C4_NoDanglingParent ==
    \A i \in 1..Len(blobs) :
        ~is_root(blobs[i]) => Len(by_content_hash(blobs, blobs[i].parent_hash)) > 0

\* C4 happens: cleanup evicted the root a delta was made against, and the
\* delta's parent_hash is now the content_hash of delta rows only.
C4_ParentEvicted ==
    \E i \in 1..Len(blobs) :
        /\ ~is_root(blobs[i])
        /\ Len(by_content_hash(blobs, blobs[i].parent_hash)) > 0
        /\ \A j \in 1..Len(blobs) : is_root(blobs[j]) => blobs[j].content_hash # blobs[i].parent_hash

\* C5 (I4, objects exist): in every state the object file of every row
\* exists, unless the row is a root other than the genesis whose object
\* dehydrate removed and nothing has put back.
C5_ObjectsExist ==
    \A i \in 1..Len(blobs) :
        \/ HasObject(objects, blobs[i].store_hash)
        \/ /\ is_root(blobs[i])
           /\ ~is_genesis(blobs[i])
           /\ blobs[i].store_hash \in ghost.dehydrated

\* C5 happens: cleanup has evicted a root and its file, and a root that is
\* left has no object file because dehydrate removed it.
C5_EvictedAndDehydrated ==
    /\ SomeEvicted
    /\ \E i \in 1..Len(blobs) : is_root(blobs[i]) /\ ~HasObject(objects, blobs[i].store_hash)

\* C6 (I6, reachable from genesis): in every state every delta row is
\* reached from the first row by following child pointers.
C6_ReachableFromGenesis ==
    \A i \in 1..Len(blobs) : ~is_root(blobs[i]) => i \in mark_reached(blobs)

\* C7 (genesis): in every state with a row there is exactly one row with
\* id 1; it is the row of the first push, has the smallest id and no
\* parent_hash, and its object file exists.
C7_GenesisKept ==
    Len(blobs) > 0 =>
        /\ Cardinality({i \in 1..Len(blobs) : is_genesis(blobs[i])}) = 1
        /\ is_genesis(blobs[1])
        /\ is_root(blobs[1])
        /\ blobs[1].store_hash = Digest(Full(1))
        /\ \A i \in 1..Len(blobs) : blobs[1].id <= blobs[i].id
        /\ HasObject(objects, blobs[1].store_hash)

\* C7 happens: cleanup has evicted a root and dehydrate has removed object
\* files, and the genesis row and its object are there.
C7_GenesisAfterEviction ==
    /\ SomeEvicted
    /\ ghost.dehydrated # {}
    /\ is_genesis(blobs[1])
    /\ HasObject(objects, blobs[1].store_hash)

\* C8 (eviction bound): when the last push came back Ok from cleanup, the
\* index has at most MAX_ROOTS + 2 roots.
C8_RootsBounded == PushedThrough => Len(roots(blobs)) <= MAX_ROOTS + 2

\* C9 (newest root kept): with no dehydrate called, when the last push came
\* back Ok from cleanup, the root that push created is still a row of the
\* index and its object file exists.
C9_NewestRootKept ==
    (PushedThrough /\ nops.dehydrate = 0) =>
        /\ \E i \in 1..Len(blobs) :
              is_root(blobs[i]) /\ blobs[i].content_hash = Digest(Full(last.arg))
        /\ HasObject(objects, Digest(Full(last.arg)))

\* C10 (winner minimality): when no trial fails, the delta push links has
\* the smallest size any trial would have written, under every interleaving
\* of the trials; a trial smaller than every other one is never raced out.
C10_WinnerMinimal ==
    picked # NotPicked =>
        /\ picked = SetMin({trials[k].total : k \in DOMAIN trials})
        /\ \A k \in DOMAIN trials :
              (\A j \in DOMAIN trials \ {k} : trials[k].total < trials[j].total)
              => trials[k].st = "done"

\* C10 happens: the push of several trials of different sizes has picked
\* its delta after a trial was raced out.
C10_PickedAfterRace ==
    /\ picked # NotPicked
    /\ \E k, j \in DOMAIN trials : trials[k].st = "out" /\ trials[j].total # trials[k].total

\* C11 (full blob replaced by the delta): when the last push came back Ok
\* from cleanup, having linked a delta, the index has no root row with the
\* content_hash of the pushed version and no object file of its full bytes.
C11_FullDeleted ==
    PushedThrough =>
        /\ \A i \in 1..Len(blobs) :
              is_root(blobs[i]) => blobs[i].content_hash # Digest(Full(last.arg))
        /\ ~HasObject(objects, Digest(Full(last.arg)))

\* C13 (failed trial omitted): a push in which a trial failed with an error
\* that is no race cancellation, while the trial against the genesis
\* completed, returns Ok and has inserted a delta row of the pushed version.
C13_FailedTrialOmitted ==
    (last.op = "push" /\ last.step = "trials") =>
        /\ last.ret = "ok"
        /\ \E i \in 1..Len(blobs) :
              ~is_root(blobs[i]) /\ blobs[i].content_hash = Digest(Full(last.arg))

\* C14 (unknown filename): a get of a filename that no row of the index
\* has does not return Ok, and leaves out_filename alone.
C14_UnknownFails ==
    (last.op = "get" /\ Len(by_filename(blobs, last.arg)) = 0) =>
        (last.ret # "ok" /\ out = NoFile)

\* C12 (all trials raced out): when push has joined its trials and every
\* one of them ended as raced out (append_delta returned Ok(None)), push
\* neither panics nor returns an error.
C12_AllRacedKeepsFull ==
    (picked # NotPicked /\ \A k \in DOMAIN trials : trials[k].st = "out")
        => picked \notin {NoBlobs, TrialErr}

\* the blobs get leaves behind on its walk from the newest row of filename
\* to a root, root side first; empty when there is no such walk
ChainOf(bs, filename) ==
    LET found == by_filename(bs, filename) IN
    IF Len(found) = 0 THEN <<>>
    ELSE LET w == ParentWalk(bs, Last(found), <<>>, Len(bs))
         IN IF w.st = "root" THEN w.path ELSE <<>>

\* the bytes the first k decodes of the chain give, whatever their digest;
\* NoFile once a file is missing or a patch does not apply
RECURSIVE DecodedTo(_, _, _, _)
DecodedTo(bs, objs, path, k) ==
    IF k = 0
    THEN IF HasObject(objs, path[1].parent_hash) THEN objs[path[1].parent_hash] ELSE NoFile
    ELSE LET src == DecodedTo(bs, objs, path, k - 1) IN
         IF src = NoFile \/ ~HasObject(objs, path[k].store_hash) THEN NoFile
         ELSE IF ~CanDecode(src, objs[path[k].store_hash]) THEN NoFile
         ELSE Decode(src, objs[path[k].store_hash])

\* the steps of the chain whose decode gives bytes of another digest than
\* the content_hash the delta records
Mismatches(bs, objs, path) ==
    {k \in 1..Len(path) :
        LET dst == DecodedTo(bs, objs, path, k)
        IN dst # NoFile /\ Digest(dst) # path[k].content_hash}

C16_GetAfterDehydrate ==
    [][(/\ last'.op = "get"
        /\ blobs' = blobs
        /\ objects' = objects
        /\ nops.dehydrate > 0
        /\ ~Cyclic(blobs)
        /\ Len(by_filename(blobs, last'.arg)) > 0)
        => last'.ret = "ok"]_vars

\* the roots other than the genesis
OtherRoots(bs) == {i \in 1..Len(bs) : is_root(bs[i]) /\ ~is_genesis(bs[i])}

\* C17 (frame of dehydrate): a call of dehydrate leaves the index as it is
\* and the object store as it was less the object file of every root other
\* than the genesis.
C17_DehydrateFrame ==
    [][nops'.dehydrate # nops.dehydrate =>
        /\ blobs' = blobs
        /\ DOMAIN objects' = DOMAIN objects \ {blobs[i].store_hash : i \in OtherRoots(blobs)}
        /\ \A h \in DOMAIN objects' : objects'[h] = objects[h]]_vars

\* the store is a dehydrated one: the object file of every root other than
\* the genesis is gone, every other row's object file is intact
Dehydrated(bs, objs) ==
    /\ OtherRoots(bs) # {}
    /\ \A i \in 1..Len(bs) :
          IF i \in OtherRoots(bs) THEN ~HasObject(objs, bs[i].store_hash)
          ELSE Intact(bs, objs, i)

\* C18 (dehydrate, hydrate round trip): a hydrate of a dehydrated store
\* that changes the store leaves the object file of every row intact and
\* touches no file of a row that is no root.  (In Spec a step that changes
\* objects and neither last nor nops is a hydrate.)
C18_HydrateRestores ==
    [][(/\ objects' # objects
        /\ last' = last
        /\ nops' = nops
        /\ Dehydrated(blobs, objects))
        => (/\ blobs' = blobs
            /\ \A i \in 1..Len(blobs) : Intact(blobs, objects', i)
            /\ \A h \in DOMAIN objects : objects'[h] = objects[h])]_vars

\* C19 (validate coverage): after pushes alone, a validate returns Ok
\* having decoded every row that is no root, digest and length asserted.
C19_ValidateCovers ==
    last.op = "validate" =>
        /\ last.ret = "ok"
        /\ \A i \in 1..Len(blobs) :
              ~is_root(blobs[i]) => i \in validate(blobs, objects, sim).decoded

\* C20 (open retries on lock only): every Connection::open after which
\* db::open goes round its loop again reported DatabaseLocked and was
\* counted: open makes at most 6 retries, one second apart, and any other
\* failure is returned to the caller at once.
C20_RetriesOnLockOnly ==
    [][(conn.st = "run" /\ conn'.st = "run" /\ conn'.tries # conn.tries)
        => (/\ conn'.seen = "DatabaseLocked"
            /\ conn'.wait_count = conn.wait_count + 1
            /\ conn'.wait_count <= 6
            /\ conn'.slept = conn.slept + 1000)]_vars

\* C25 (write checked before written): a write of a trial through the race
\* wrapper that is rejected writes nothing, a write goes through only if the
\* counter is 0 or the trial stays at or below the counter with it, and
\* such a write is not rejected: a trial can reach the counter exactly.
C25_CheckedBeforeWritten ==
    [][\A k \in DOMAIN trials :
          (k \in DOMAIN trials' /\ trials[k].st = "run" /\ trials'[k].st \in {"run", "raced"}
             /\ trials'[k] # trials[k])
          => /\ trials'[k].st = "raced" => trials'[k].size = trials[k].size
             /\ trials'[k].size # trials[k].size => (race = 0 \/ trials'[k].size <= race)
             /\ (race = 0 \/ trials'[k].size <= race) => trials'[k].st = "run"]_vars

\* C28 (a smaller trial lowers the bound): when a trial is shut down after
\* its last write with a size below the counter, the counter becomes the
\* size of that trial.
C28_SmallerBecomesBound ==
    [][\A k \in DOMAIN trials :
          (k \in DOMAIN trials' /\ trials[k].st = "run" /\ trials'[k].st = "done"
             /\ trials[k].size < race)
          => race' = trials[k].size]_vars

\* the trials cancelled with more than the smallest delta and one chunk written
Overrun ==
    {k \in DOMAIN trials :
        /\ trials[k].st \in {"raced", "out"}
        /\ trials[k].size > SetMin({trials[j].total : j \in DOMAIN trials}) + trials[k].chunk}

\* C29 (bounded waste): at most one trial of a push has written more than
\* the smallest delta plus one write chunk when it is cancelled.
C29_OneOverrun == Cardinality(Overrun) <= 1

\* the completed trials whose delta has the size the push picked
TiedDone == {k \in DOMAIN trials : trials[k].st = "done" /\ trials[k].size = picked}

\* C30 (ties go to the lowest root): when several completed trials have the
\* smallest store_size, the push links the delta of the one whose root comes
\* first in root_blobs, which db::roots returns in the order of their ids.
C30_TieLowestRoot ==
    (picked >= 0 /\ Cardinality(TiedDone) >= 2) => linked = SetMin(TiedDone)

\* C30 happens: two completed trials tie for the smallest size, after a
\* completed trial of an earlier root with a larger delta.
C30_TieAfterLarger ==
    /\ picked >= 0
    /\ Cardinality(TiedDone) >= 2
    /\ \E j \in DOMAIN trials : j < linked /\ trials[j].st = "done" /\ trials[j].size > picked

\* C24 (the counter only grows): the counter never decreases; it changes
\* only in update_race of a writer being shut down or dropped, to the size
\* of that writer, which is above what the counter held; a rejected write
\* leaves it as it was; once update_race of a writer has returned the
\* counter is at least the size of that writer.
C24_CounterOnlyGrows ==
    [][/\ race' >= race
       /\ race' # race =>
             \E k \in DOMAIN trials :
                 trials[k].st = "loop" /\ race' = trials[k].size /\ race < trials[k].size
       /\ \A k \in DOMAIN trials :
             (trials[k].st = "run" /\ trials[k].res # "race" /\ trials'[k].res = "race")
             => race' = race
       /\ \A k \in DOMAIN trials' :
             trials'[k].st \in {"shut", "dropped"} => race' >= trials'[k].size]_vars

\* C24 happens: a writer was dropped and the counter holds what it wrote;
\* another writer wrote as much and had its next write rejected.
C24_DroppedThenRejected ==
    \E k, j \in DOMAIN trials :
        /\ k # j
        /\ trials[k].st = "dropped" /\ trials[k].size = race /\ race > 1
        /\ trials[j].st = "run" /\ trials[j].size = race /\ trials[j].res = "race"

ParentsOf(bs, H) ==
    {bs[i].parent_hash : i \in {j \in 1..Len(bs) : ~is_root(bs[j]) /\ bs[j].content_hash \in H}}

\* the content hashes reached from those of H by moving to parents
RECURSIVE Ancestry(_, _)
Ancestry(bs, H) ==
    LET H2 == H \cup ParentsOf(bs, H) IN IF H2 = H THEN H ELSE Ancestry(bs, H2)

\* C22 (acyclicity): after any pushes no blob is reached again by moving
\* from it, step by step, to any blob whose content_hash is the parent_hash
\* of the blob before.
C22_Acyclic ==
    \A i \in 1..Len(blobs) :
        ~is_root(blobs[i]) => blobs[i].content_hash \notin Ancestry(blobs, {blobs[i].parent_hash})

\* C23 (no orphan objects): after every operation each object file is the
\* object of a row of the index, its path hash the store_hash of that row;
\* the object of an evicted root goes with its row.
C23_NoOrphanObject == \A h \in DOMAIN objects : HasStoreHash(blobs, h)

\* C23 happens: a push has ended with a cleanup, a root has been evicted,
\* and neither its row nor its object file is left.
C23_EvictedWithObject ==
    /\ PushedThrough
    /\ \E i \in 1..Len(blobs) :
          /\ ~is_root(blobs[i])
          /\ ~HasStoreHash(blobs, blobs[i].content_hash)
          /\ ~HasObject(objects, blobs[i].content_hash)

\* C26 (digest of a HashRW): once all of a body has been written to a
\* HashRW or read through it, in whatever chunks, its digest is the
\* digest_hex of the body hashed in one piece with the fixed key, and it is
\* 64 characters long, each a lowercase hex digit.
C26_DigestOfBody ==
    (rw.mode # "none" /\ rw.pos = Len(rw.body))
    => /\ digest(rw.meta) = digest_hex(append(HashNew, rw.body))
       /\ Len(digest(rw.meta)) = 64
       /\ \A k \in 1..Len(digest(rw.meta)) :
             \E d \in 1..16 : digest(rw.meta)[k] = HexDigits[d]

\* the two pushes of the same input have both returned
BothReturned ==
    /\ Len(pushers.p) = 2
    /\ \A k \in 1..2 : pushers.p[k].pc = "done"

\* C21 (two pushes of one input): when both have returned, exactly one of
\* them has inserted the full row and gone on, the other has found the
\* content present and returned, and the index and the object files are as
\* a single push of that input on the store before would leave them.
C21_OneInserts ==
    BothReturned =>
        /\ \E k \in 1..2 :
              /\ pushers.p[k].ret = "exists"
              /\ pushers.p[3 - k].ret # "exists"
        /\ \E r \in push(pushers.before.blobs, pushers.before.objects, sim,
                          pushers.c, FileName(pushers.c)) :
              r.blobs = blobs /\ r.objects = objects

\* the candidates of index bs whose row is, is not, a row of index bs2
KeptOf(bs, bs2) ==
    {k \in 1..Len(root_candidates(bs)) : HasStoreHash(bs2, root_candidates(bs)[k].blob.store_hash)}

\* C31 (ties at the cut-off): when the cleanup of a push has more candidates
\* than MAX_ROOTS and, of two candidates of equal score, evicts one and
\* keeps the other, the one it keeps has the higher id.
C31_TieKeepsHigherId ==
    [][(blobs' # blobs /\ last'.op = "push" /\ last'.step = "cleanup")
        => \A pre \in PushLinked(blobs, objects, sim', last'.arg, FileName(last'.arg)) :
              (/\ ~Cyclic(pre)
               /\ blobs' = SelectSeq(pre, LAMBDA r : HasStoreHash(blobs', r.store_hash))
               /\ Len(root_candidates(pre)) > MAX_ROOTS)
              => LET rc == root_candidates(pre) IN
                 \A a \in KeptOf(pre, blobs'), b \in (1..Len(rc)) \ KeptOf(pre, blobs') :
                     rc[a].score = rc[b].score => rc[a].blob.id > rc[b].blob.id]_vars

\* the largest id of the rows I of index bs
MaxId(bs, I) == SetMax({bs[i].id : i \in I})

\* the position of row b in db::all
IdxOf(bs, b) == CHOOSE i \in 1..Len(bs) : bs[i].store_hash = b.store_hash

\* C32 (score of a root): the score of a root that has an alias is
\* alias.store_size * (100 - age) / 100 in integers, with age the smaller
\* of 100 and the largest id of the index less the largest id of a child of
\* the root (for a root that has a child); neither difference is negative,
\* the score is from 0 to alias.store_size, and 0 once age is 100; a root
\* without alias is no candidate and is not evicted.
C32_ScoreFormula ==
    ~Cyclic(blobs) =>
        /\ \A k \in 1..Len(root_candidates(blobs)) :
              LET rb == root_candidates(blobs)[k]
                  ch == children(blobs, IdxOf(blobs, rb.blob))
                  age == Min2(MAX_AGE, MaxId(blobs, 1..Len(blobs)) - MaxId(blobs, ch))
              IN /\ ch # {} =>
                      /\ MaxId(blobs, 1..Len(blobs)) - MaxId(blobs, ch) >= 0
                      /\ MAX_AGE - age >= 0
                      /\ rb.score = (rb.alias.store_size * (MAX_AGE - age)) \div MAX_AGE
                      /\ age >= MAX_AGE => rb.score = 0
                 /\ 0 <= rb.score
                 /\ rb.score <= rb.alias.store_size
        /\ \A i \in 1..Len(blobs) :
              (is_root(blobs[i]) /\ AliasIdx(blobs, i) = 0) =>
                  /\ \A k \in 1..Len(root_candidates(blobs)) :
                        root_candidates(blobs)[k].blob # blobs[i]
                  /\ \A k \in 1..Len(Evicted(blobs)) : Evicted(blobs)[k].blob # blobs[i]

\* the spawned decodes that are at their source after it was dropped
LateReaders ==
    {c \in DOMAIN walk.tasks :
        \/ walk.tasks[c].st = "lost"
        \/ walk.tasks[c].st = "reading" /\ ~SrcLive(walk.tasks[c].src)}

\* C33 (order of the walk of validate): no decode, spawned ones included,
\* is at a source file that was dropped; in the call of
\* validate_blob_children that is running the children are taken in
\* ascending child_count, the one of the largest last, and the temp file
\* the node was decoded to is given to that last child once every other
\* child is decoded.
C33_SourceOutlivesReaders ==
    /\ LateReaders = {}
    /\ Len(walk.stack) > 0 =>
          /\ \A a \in 1..(Len(Top.rest) - 1) :
                child_count(blobs, Top.rest[a]) <= child_count(blobs, Top.rest[a + 1])
          /\ \A c \in children(blobs, Top.node) :
                Top.last # 0 /\ child_count(blobs, c) <= child_count(blobs, Top.last)
          /\ (Len(Top.rest) = 0 /\ Len(Top.handles) = 0)
                => children(blobs, Top.node) \ {Top.last} \subseteq walk.done

\* C34 (ids only grow): every row a push inserts gets an id above the id of
\* every row inserted before it, evicted rows included, and the rows of the
\* index are in the order of their ids, the newest last.
C34_IdsNeverReused ==
    [][/\ \A i \in 1..Len(blobs') :
             ~HasStoreHash(blobs, blobs'[i].store_hash) => blobs'[i].id > ghost.max_id
       /\ \A i \in 1..(Len(blobs') - 1) : blobs'[i].id < blobs'[i + 1].id]_vars

\* C35 (the parent walk of get ends): after any pushes, for every filename
\* of the index, the walk from the newest row of that filename, each time
\* on to the newest row whose content_hash is the parent_hash, comes to a
\* row without parent_hash.
C35_WalkEnds ==
    \A filename \in FileNames(blobs) :
        ParentWalk(blobs, Last(by_filename(blobs, filename)), <<>>, Len(blobs)).st = "root"

\* the content_hash values recorded in index bs
ContentHashes(bs) == {bs[i].content_hash : i \in 1..Len(bs)}

\* C36 (eviction loses no content): every row that a step takes out of the
\* index is a root, and a row that is no root with its content_hash is in
\* the index after the step; no content_hash recorded in the index is ever
\* lost from it.
C36_ContentKept ==
    [][/\ \A i \in 1..Len(blobs) :
             ~HasStoreHash(blobs', blobs[i].store_hash) =>
                 /\ is_root(blobs[i])
                 /\ \E j \in 1..Len(blobs') :
                       ~is_root(blobs'[j]) /\ blobs'[j].content_hash = blobs[i].content_hash
       /\ ContentHashes(blobs) \subseteq ContentHashes(blobs')]_vars

\* C36 happens: pushes have evicted the roots of two versions or more, and a
\* row with the content_hash of every version pushed is in the index.
C36_TwoEvictedAllRecorded ==
    /\ Cardinality({c \in ghost.pushed :
                      \A i \in 1..Len(blobs) :
                          is_root(blobs[i]) => blobs[i].content_hash # Digest(Full(c))}) >= 2
    /\ \A c \in ghost.pushed : Digest(Full(c)) \in ContentHashes(blobs)

\* C37 (update_race ends): whichever writers run update_race on the same
\* counter at the same time, a writer that is inside update_race comes out
\* of it, and the counter is then at least what that writer has written.
C37_UpdateRaceEnds ==
    \A k \in 1..NumTrials :
        (k \in DOMAIN trials /\ trials[k].st = "loop")
        ~> (k \in DOMAIN trials /\ trials[k].st \in {"shut", "dropped"} /\ race >= trials[k].size)

\* C37 happens: a writer has come out of update_race while another is inside
\* it with a value loaded before the counter changed, and has to go round
\* its loop again.
C37_ExitedBesideStale ==
    \E k, j \in DOMAIN trials :
        /\ k # j
        /\ trials[k].st \in {"shut", "dropped"}
        /\ race >= trials[k].size
        /\ trials[k].size > 0
        /\ trials[j].st = "loop"
        /\ trials[j].value # race
        /\ race < trials[j].size

\* C38 (other failures returned at once): once a Connection::open of
\* db::open has failed with anything other than DatabaseLocked, open has
\* returned that error; it is not in its loop any more.
C38_OtherErrorsReturned ==
    conn.seen \in {"SqliteFailure", "Error"} => conn.st = "err"

\* C39 (delta sources are the roots read first): every delta row that a
\* push inserts has as parent_hash the content_hash of a row of the
\* root_blobs that this push read before it inserted its full blob, and
\* never its own content_hash: the pushed bytes are not their own source.
C39_SourcesReadFirst ==
    [][\A i \in 1..Len(blobs') :
          (~is_root(blobs'[i]) /\ ~HasStoreHash(blobs, blobs'[i].store_hash))
          => /\ blobs'[i].parent_hash # blobs'[i].content_hash
             /\ \E rs \in (IF pushers = NoPushers THEN {roots(blobs)}
                            ELSE {pushers.p[k].root_blobs :
                                     k \in {j \in DOMAIN pushers.p :
                                               /\ pushers.p[j].pc = "trials"
                                               /\ pushers'.p[j].pc = "done"}}) :
                   \E k \in 1..Len(rs) : rs[k].content_hash = blobs'[i].parent_hash]_vars

\* C40 (some trial completes): while no write of a trial fails, the shared
\* counter is non-zero only once a trial has completed, a trial is raced
\* out only against a trial that completed with no more bytes, and when
\* the trials are joined link_blobs is not empty: push has a winner.
C40_SomeTrialCompletes ==
    /\ race # 0 => \E k \in DOMAIN trials : trials[k].st = "done" /\ trials[k].size <= race
    /\ \A j \in DOMAIN trials :
          trials[j].st \in {"raced", "out"}
          => \E k \in DOMAIN trials : trials[k].st = "done" /\ trials[k].size <= trials[j].size
    /\ (\A k \in DOMAIN trials : trials[k].st \in {"done", "out"}) => Len(link_blobs(trials)) > 0
    /\ picked # NotPicked => picked \in {trials[k].size : k \in DOMAIN trials}

\* the trials are joined, one completed and all others were raced out
C40_OneDoneOthersOut ==
    /\ picked # NotPicked
    /\ Len(trials) = NumTrials
    /\ Cardinality({k \in DOMAIN trials : trials[k].st = "done"}) = 1
    /\ \E k \in DOMAIN trials : trials[k].st = "out" /\ trials[k].size < trials[k].total

============================================================================
